---- MODULE Spec2Model ----
(***************************************************************************)
(* The mfile-backed block store (package block) and the reference codec   *)
(* (package agro): two fixed-slot files, data and map, plus an in-memory  *)
(* radix trie from the 24-byte encoding of a block reference to the slot  *)
(* that holds it.                                                          *)
(*                                                                         *)
(* GetBlock, WriteBlock, DeleteBlock, DeleteINodeBlocks, Close and         *)
(* BlockIterator hold the store's mutex for their whole body, so one call *)
(* is one atomic action; NumBlocks, UsedBlocks and Flush take no lock and *)
(* are one read each.  The uint64 counter m.size is kept as an integer: a *)
(* value below zero stands for the wrapped value 2^64 + size.  A block    *)
(* payload (block-size bytes) is an integer, 0 being the all-zero block a *)
(* freshly created data file holds.  Block references come from volumes   *)
(* 1 and up: volume 0 is reserved, so that no reference encodes to the    *)
(* all-zero empty-slot pattern.                                           *)
(***************************************************************************)
EXTENDS Integers, Sequences, FiniteSets, TLC

\* ---- bounds of the model ----
NBlocks == 3        \* N = cfg.StorageSize / meta.BlockSize
MaxVolume == 2      \* volume ids 1..MaxVolume (volume 0 is reserved)
MaxINode == 2       \* inode ids 1..MaxINode
MaxIndex == 1       \* block indexes 0..MaxIndex
MaxRefSum == 3      \* callers use the references with Volume+INode+Index <= MaxRefSum
MaxPayload == 1     \* payloads 0..MaxPayload
MaxKind == 2        \* backend kind names 1..MaxKind
MaxFunc == 2        \* constructors 1..MaxFunc
NThreads == 2       \* threads 1..NThreads calling into one store
MaxStores == 3      \* mfileBlock objects 1..MaxStores of the replacement scenario

\* ---- program constants ----
WordSize == 8               \* bytes of a uint64 (VolumeID, INodeID, IndexID)
INodeRefByteSize == 8 * 2
BlockRefByteSize == 8 * 3

Slots == 0 .. (NBlocks - 1)
Volumes == 1 .. MaxVolume
INodes == 1 .. MaxINode
Indexes == 0 .. MaxIndex
Payloads == 0 .. MaxPayload

INodeRefs == [Volume : Volumes, INode : INodes]
\* With the bounds above: (1,1,0), (1,1,1), (1,2,0), (2,1,0).
BlockRefs ==
    {b \in [Volume : Volumes, INode : INodes, Index : Indexes] :
        b.Volume + b.INode + b.Index <= MaxRefSum}

\* ---- reference codec ----

\* binary.Write(buf, binary.LittleEndian, x) for one uint64 field: the n
\* low bytes of x, least significant first.
RECURSIVE LittleEndianBytes(_, _)
LittleEndianBytes(x, n) ==
    IF n = 0 THEN <<>> ELSE <<x % 256>> \o LittleEndianBytes(x \div 256, n - 1)

LittleEndian(x) == LittleEndianBytes(x, WordSize)

\* what a ToBytes that broke its length contract leaves: the panic
BreakingContract == <<"panic: breaking contract -- must make size appropriate">>

\* INodeRef.ToBytes: binary.Write of the struct, its fields in order.
EncodeINodeRef(i) ==
    LET out == LittleEndian(i.Volume) \o LittleEndian(i.INode)
    IN IF Len(out) # INodeRefByteSize THEN BreakingContract ELSE out

\* BlockRef.ToBytes
EncodeBlockRef(b) ==
    LET out == LittleEndian(b.Volume) \o LittleEndian(b.INode)
                   \o LittleEndian(b.Index)
    IN IF Len(out) # BlockRefByteSize THEN BreakingContract ELSE out

\* The encodings of the references of the model, computed once.
RECURSIVE INodeRefTable(_)
INodeRefTable(S) ==
    IF S = {} THEN <<>>
    ELSE LET i == CHOOSE x \in S : TRUE
         IN (i :> EncodeINodeRef(i)) @@ INodeRefTable(S \ {i})

RECURSIVE BlockRefTable(_)
BlockRefTable(S) ==
    IF S = {} THEN <<>>
    ELSE LET b == CHOOSE x \in S : TRUE
         IN (b :> EncodeBlockRef(b)) @@ BlockRefTable(S \ {b})

INodeRefBytes == INodeRefTable(INodeRefs)
BlockRefBytes == BlockRefTable(BlockRefs)

\* (mutant) the inode prefix written most significant byte first
RECURSIVE BigEndianBytes(_, _)
BigEndianBytes(x, n) ==
    IF n = 0 THEN <<>> ELSE BigEndianBytes(x \div 256, n - 1) \o <<x % 256>>

INodeRefToBytesBigEndian(i) ==
    BigEndianBytes(i.Volume, WordSize) \o BigEndianBytes(i.INode, WordSize)

INodeRefToBytes(i) == INodeRefBytes[i]

BlockRefToBytes(b) == BlockRefBytes[b]

\* binary.Read of one little-endian uint64 from 8 bytes.
RECURSIVE FromLittleEndian(_)
FromLittleEndian(bs) ==
    IF bs = <<>> THEN 0 ELSE Head(bs) + 256 * FromLittleEndian(Tail(bs))

BlockRefFromBytes(b) ==
    [Volume |-> FromLittleEndian(SubSeq(b, 1, WordSize)),
     INode  |-> FromLittleEndian(SubSeq(b, WordSize + 1, 2 * WordSize)),
     Index  |-> FromLittleEndian(SubSeq(b, 2 * WordSize + 1, 3 * WordSize))]

IsINode(b, i) == b.INode = i.INode /\ b.Volume = i.Volume

\* make([]byte, n)
RECURSIVE ZeroBytes(_)
ZeroBytes(n) == IF n = 0 THEN <<>> ELSE <<0>> \o ZeroBytes(n - 1)

\* make([]byte, agro.BlockRefByteSize): the empty-slot pattern.
Blank == ZeroBytes(BlockRefByteSize)

\* ---- the radix trie (hashicorp/go-immutable-radix), as a finite map ----

EmptyTrie == [k \in {} |-> 0]

\* tx.Insert(k, v): the new map and whether k was already present.
TrieInsert(t, k, v) ==
    [trie |-> [x \in (DOMAIN t) \cup {k} |-> IF x = k THEN v ELSE t[x]],
     exists |-> k \in DOMAIN t]

\* tx.Delete(k)
TrieDelete(t, k) ==
    [trie |-> [x \in (DOMAIN t) \ {k} |-> t[x]],
     exists |-> k \in DOMAIN t]

\* bytes.HasPrefix(k, p)
HasPrefix(k, p) == Len(p) <= Len(k) /\ SubSeq(k, 1, Len(p)) = p

\* it.SeekPrefix(p) followed by it.Next() until exhausted: the keys under p.
SeekPrefix(t, p) == {k \in DOMAIN t : HasPrefix(k, p)}

\* lexicographic order on byte strings of equal length: the order in which
\* the trie's iterator yields keys.
RECURSIVE BytesLess(_, _)
BytesLess(a, b) ==
    IF a = <<>> \/ b = <<>> THEN FALSE
    ELSE IF Head(a) # Head(b) THEN Head(a) < Head(b)
    ELSE BytesLess(Tail(a), Tail(b))

\* the keys of t in iteration order
RECURSIVE SortedKeys(_)
SortedKeys(ks) ==
    IF ks = {} THEN <<>>
    ELSE LET least == CHOOSE k \in ks : \A o \in ks \ {k} : BytesLess(k, o)
         IN <<least>> \o SortedKeys(ks \ {least})

\* ---- state ----
VARIABLES
    data,       \* data file: slot -> payload
    blockMap,   \* map file: slot -> 24 bytes
    blockTrie,  \* m.blockTrie
    closed,     \* m.closed
    lastFree,   \* m.lastFree
    size,       \* m.size
    ret,        \* the last call and what it returned: [op, val, err]
    iter,       \* the mfileIterator a caller holds: [hasTx, tx, it, result]
    yielded,    \* what that caller has collected from it: BlockRef() after each Next()
    created,    \* the refs get found when that iterator was created
    blockStores,    \* agro.blockStores: [made, of], of the name -> constructor map
    inodeStores,    \* agro.inodeStores
    rebal,      \* the rebalancer's DeleteUnusedVolumes call in progress
    pc,         \* per thread, the call it is inside: [op, step, s, d, index]
    mut,        \* m.mut: [w, r], the thread holding it locked (0: none) and
                \* the threads holding it read-locked
    stopped,    \* what thread 1 was inside when the process last stopped, and
                \* what get returned for every ref at that instant
    stores,     \* replacement scenario: the mfileBlock objects
    mfiles,     \* the storage.MFile objects: [blocks, closed]
    disk,       \* the directory: path -> the MFile's file it names (0: none)
    rpc         \* per thread, the ReplaceBlockStore call it is inside

file == <<data, blockMap>>
store == <<data, blockMap, blockTrie, closed, lastFree, size>>
iterator == <<iter, yielded, created>>
registry == <<blockStores, inodeStores>>
threads == <<pc, mut, stopped>>
replacement == <<stores, mfiles, disk, rpc>>
vars == <<data, blockMap, blockTrie, closed, lastFree, size, ret, iter, yielded,
          created, blockStores, inodeStores, rebal, pc, mut, stopped, stores,
          mfiles, disk, rpc>>

\* A call's return: val is the value returned (NoValue when there is none or
\* it is nil), err the error ("nil" for a nil error).
NoValue == -1
Return(op, val, err) == [op |-> op, val |-> val, err |-> err]

\* ---- helpers of the store ----

\* loadTrie: scan slots 0..n-1, insert every non-blank slot, count them.
RECURSIVE loadTrieUpTo(_, _)
loadTrieUpTo(m, n) ==
    IF n = 0 THEN [trie |-> EmptyTrie, size |-> 0]
    ELSE LET prev == loadTrieUpTo(m, n - 1)
             b == m[n - 1]
         IN IF b = Blank THEN prev
            ELSE [trie |-> TrieInsert(prev.trie, b, n - 1).trie,
                  size |-> prev.size + 1]

\* (mutant) the scan counts every slot, blank or not
loadTrieCountsBlank(m) ==
    [trie |-> loadTrieUpTo(m, NBlocks).trie, size |-> NBlocks]

loadTrie(m) == loadTrieUpTo(m, NBlocks)

findIndex(t, s) ==
    LET id == BlockRefToBytes(s)
    IN IF id \in DOMAIN t THEN t[id] ELSE -1

\* findEmpty: probe (i + lastFree + 1) % N for i = 0..N-1.
RECURSIVE findEmptyFrom(_, _, _)
findEmptyFrom(m, lf, i) ==
    IF i = NBlocks THEN -1
    ELSE LET j == (i + lf + 1) % NBlocks
         IN IF m[j] = Blank THEN j ELSE findEmptyFrom(m, lf, i + 1)

\* (mutant) the probe stops one slot short: i + 1 < N
findEmptyShort(m, lf) == findEmptyFrom(m, lf, 1)

\* (mutant) the probe starts at the hint itself, not one past it
findEmptyAtHint(m, lf) == findEmptyFrom(m, lf - 1, 0)

findEmpty(m, lf) == findEmptyFrom(m, lf, 0)

\* A method of storage.MFile called after the MFile was closed.
MFileAfterClose == "panic"

\* no iterator: the zero mfileIterator (tx == nil, it == nil)
NoIterator == [hasTx |-> FALSE, tx |-> {}, it |-> -1, result |-> <<>>]

\* var blockStores map[string]NewBlockStoreFunc: a nil map.  A map is [made,
\* of]: made is FALSE for the nil map, of holds the entries.
NilMap == [made |-> FALSE, of |-> <<>>]

\* no DeleteUnusedVolumes call is running
NoRebalance ==
    [pc |-> "idle", live |-> {}, highwater |-> 0, err |-> "nil",
     start |-> <<>>, gone |-> {}]

Threads == 1 .. NThreads

\* the zero BlockRef
ZeroRef == [Volume |-> 0, INode |-> 0, Index |-> 0]

\* a thread that is inside no call
Idle == [op |-> "idle", step |-> "idle", s |-> ZeroRef, d |-> 0, index |-> -1]

\* the process has not stopped
NoStop == [op |-> "idle", step |-> "idle", s |-> ZeroRef, d |-> 0, lookup |-> <<>>]

\* The replacement scenario: two stores, A opened under name 1 and B under
\* name 2 in one data directory; the other objects are those that
\* ReplaceBlockStore returns.
A == 1
B == 2
StoreIds == 1 .. MaxStores

\* filepath.Join(cfg.DataDir, "block", "data-<name>.blk") and "map-<name>.blk"
DataPath(name) == 2 * name - 1
MapPath(name) == 2 * name
Paths == {DataPath(A), MapPath(A), DataPath(B), MapPath(B)}

\* the MFile opened on a path is numbered as the path; 0 is the nil *MFile
FileIds == Paths

\* an object that does not exist yet
NoStore ==
    [made |-> FALSE, mut |-> 0, data |-> 0, blockMap |-> 0, blockTrie |-> <<>>,
     closed |-> FALSE, lastFree |-> 0, size |-> 0, dfilename |-> 0, mfilename |-> 0]

\* newMFileBlockStore(name, ...) where no file exists: both files are created
\* zero-filled, the scan finds nothing
FreshStore(name) ==
    [made |-> TRUE, mut |-> 0, data |-> DataPath(name), blockMap |-> MapPath(name),
     blockTrie |-> loadTrie([i \in Slots |-> Blank]).trie,
     closed |-> FALSE, lastFree |-> 0,
     size |-> loadTrie([i \in Slots |-> Blank]).size,
     dfilename |-> DataPath(name), mfilename |-> MapPath(name)]

\* a thread that is inside no ReplaceBlockStore call
NoCall == [op |-> "idle", step |-> "idle", m |-> 0, newM |-> 0]

\* ---- construction ----

\* newMFileBlockStore on fresh paths: both files are created zero-filled.
Init ==
    /\ data = [i \in Slots |-> 0]
    /\ blockMap = [i \in Slots |-> Blank]
    /\ blockTrie = loadTrie([i \in Slots |-> Blank]).trie
    /\ size = loadTrie([i \in Slots |-> Blank]).size
    /\ closed = FALSE
    /\ lastFree = 0
    /\ ret = Return("newMFileBlockStore", NoValue, "nil")
    /\ iter = NoIterator
    /\ yielded = <<>>
    /\ created = {}
    /\ blockStores = NilMap
    /\ inodeStores = NilMap
    /\ rebal = NoRebalance
    /\ pc = [t \in Threads |-> Idle]
    /\ mut = [w |-> 0, r |-> {}]
    /\ stopped = NoStop
    /\ stores = [x \in StoreIds |-> IF x \in {A, B} THEN FreshStore(x) ELSE NoStore]
    /\ mfiles = [f \in FileIds |->
                   [blocks |-> IF f \in {DataPath(A), DataPath(B)}
                               THEN [i \in Slots |-> 0]
                               ELSE [i \in Slots |-> Blank],
                    closed |-> FALSE]]
    /\ disk = [p \in Paths |-> p]
    /\ rpc = [t \in Threads |-> NoCall]

\* newMFileBlockStore on the paths of a closed store: the files are reused.
newMFileBlockStore ==
    /\ closed
    /\ blockTrie' = loadTrie(blockMap).trie
    /\ size' = loadTrie(blockMap).size
    /\ lastFree' = 0
    /\ closed' = FALSE
    /\ ret' = Return("newMFileBlockStore", NoValue, "nil")
    /\ UNCHANGED file

\* ---- operations of the store ----

GetBlockResult(t, d, c, s) ==
    IF c THEN [val |-> NoValue, err |-> "ErrClosed"]
    ELSE IF findIndex(t, s) = -1 THEN [val |-> NoValue, err |-> "ErrBlockNotExist"]
    ELSE [val |-> d[findIndex(t, s)], err |-> "nil"]

GetBlock(s) ==
    /\ ret' = LET r == GetBlockResult(blockTrie, data, closed, s)
              IN Return("GetBlock", r.val, r.err)
    /\ UNCHANGED store

\* (mutant) the payload goes to the slot the hint named before findEmpty
\* moved it
WriteBlockAtOldHint(s, d) ==
    IF closed THEN
        /\ ret' = Return("WriteBlock", NoValue, "ErrClosed")
        /\ UNCHANGED store
    ELSE LET index == findEmpty(blockMap, lastFree) IN
        IF index = -1 THEN
            /\ ret' = Return("WriteBlock", NoValue, "ErrOutOfSpace")
            /\ UNCHANGED store
        ELSE LET ins == TrieInsert(blockTrie, BlockRefToBytes(s), index) IN
            /\ lastFree' = index
            /\ data' = [data EXCEPT ![lastFree] = d]
            /\ blockMap' = [blockMap EXCEPT ![index] = BlockRefToBytes(s)]
            /\ closed' = closed
            /\ IF ins.exists
               THEN /\ ret' = Return("WriteBlock", NoValue, "ErrAlreadyExisted")
                    /\ UNCHANGED <<blockTrie, size>>
               ELSE /\ ret' = Return("WriteBlock", NoValue, "nil")
                    /\ size' = size + 1
                    /\ blockTrie' = ins.trie

WriteBlock(s, d) ==
    IF closed THEN
        /\ ret' = Return("WriteBlock", NoValue, "ErrClosed")
        /\ UNCHANGED store
    ELSE LET index == findEmpty(blockMap, lastFree) IN
        IF index = -1 THEN
            /\ ret' = Return("WriteBlock", NoValue, "ErrOutOfSpace")
            /\ UNCHANGED store
        ELSE LET ins == TrieInsert(blockTrie, BlockRefToBytes(s), index) IN
            /\ lastFree' = index
            /\ data' = [data EXCEPT ![index] = d]
            /\ blockMap' = [blockMap EXCEPT ![index] = BlockRefToBytes(s)]
            /\ closed' = closed
            /\ IF ins.exists
               THEN /\ ret' = Return("WriteBlock", NoValue, "ErrAlreadyExisted")
                    /\ UNCHANGED <<blockTrie, size>>
               ELSE /\ ret' = Return("WriteBlock", NoValue, "nil")
                    /\ size' = size + 1
                    /\ blockTrie' = ins.trie

\* (mutant) the counter is lowered before the lookup
DeleteBlockCountsFirst(s) ==
    IF closed THEN
        /\ ret' = Return("DeleteBlock", NoValue, "ErrClosed")
        /\ UNCHANGED store
    ELSE LET index == findIndex(blockTrie, s) IN
        IF index = -1 THEN
            /\ ret' = Return("DeleteBlock", NoValue, "ErrBlockNotExist")
            /\ size' = size - 1
            /\ UNCHANGED <<data, blockMap, blockTrie, closed, lastFree>>
        ELSE
            /\ blockMap' = [blockMap EXCEPT ![index] = Blank]
            /\ blockTrie' = TrieDelete(blockTrie, BlockRefToBytes(s)).trie
            /\ size' = size - 1
            /\ ret' = Return("DeleteBlock", NoValue, "nil")
            /\ UNCHANGED <<data, closed, lastFree>>

DeleteBlock(s) ==
    IF closed THEN
        /\ ret' = Return("DeleteBlock", NoValue, "ErrClosed")
        /\ UNCHANGED store
    ELSE LET index == findIndex(blockTrie, s) IN
        IF index = -1 THEN
            /\ ret' = Return("DeleteBlock", NoValue, "ErrBlockNotExist")
            /\ UNCHANGED store
        ELSE
            /\ blockMap' = [blockMap EXCEPT ![index] = Blank]
            /\ blockTrie' = TrieDelete(blockTrie, BlockRefToBytes(s)).trie
            /\ size' = size - 1
            /\ ret' = Return("DeleteBlock", NoValue, "nil")
            /\ UNCHANGED <<data, closed, lastFree>>

DeleteINodeBlocks(s) ==
    IF closed THEN
        /\ ret' = Return("DeleteINodeBlocks", NoValue, "ErrClosed")
        /\ UNCHANGED store
    ELSE LET keyList == SeekPrefix(blockTrie, INodeRefToBytes(s))
             deleteList == {blockTrie[k] : k \in keyList}
         IN
            /\ blockMap' = [i \in Slots |->
                              IF i \in deleteList THEN Blank ELSE blockMap[i]]
            /\ blockTrie' = [k \in (DOMAIN blockTrie) \ keyList |-> blockTrie[k]]
            /\ size' = size - Cardinality(keyList)
            /\ ret' = Return("DeleteINodeBlocks", NoValue, "nil")
            /\ UNCHANGED <<data, closed, lastFree>>

\* NumBlocks: m.data.NumBlocks(), no check of m.closed.
NumBlocks ==
    /\ ret' = IF closed THEN Return("NumBlocks", NoValue, MFileAfterClose)
              ELSE Return("NumBlocks", NBlocks, "nil")
    /\ UNCHANGED store

\* UsedBlocks: m.size, no check of m.closed.
UsedBlocks ==
    /\ ret' = Return("UsedBlocks", size, "nil")
    /\ UNCHANGED store

\* Flush: flushes both MFiles, no check of m.closed.
Flush ==
    /\ ret' = Return("Flush", NoValue, IF closed THEN MFileAfterClose ELSE "nil")
    /\ UNCHANGED store

\* Close: close() flushes and closes both MFiles, then sets m.closed.
Close ==
    IF closed THEN
        /\ ret' = Return("Close", NoValue, MFileAfterClose)
        /\ UNCHANGED store
    ELSE
        /\ closed' = TRUE
        /\ ret' = Return("Close", NoValue, "nil")
        /\ UNCHANGED <<data, blockMap, blockTrie, lastFree, size>>

\* ---- the iterator ----

\* BlockIterator: a transaction on the current trie root; no check of m.closed.
\* Next discards the values of the trie (i.result, _, ok = i.it.Next()), so the
\* iterator keeps the keys of that root.
BlockIterator ==
    /\ iter' = [hasTx |-> TRUE, tx |-> DOMAIN blockTrie, it |-> -1, result |-> <<>>]
    /\ yielded' = <<>>
    /\ created' = {s \in BlockRefs : GetBlockResult(blockTrie, data, FALSE, s).err = "nil"}
    /\ ret' = Return("BlockIterator", NoValue, "nil")
    /\ UNCHANGED store

\* (mutant) Next walks the store's current trie, not the transaction's root
IteratorNextLive(t) ==
    IF ~iter.hasTx THEN
        /\ ret' = Return("Next", 0, "nil")
        /\ UNCHANGED <<store, iterator>>
    ELSE LET keys == SortedKeys(DOMAIN blockTrie)
             pos == IF iter.it = -1 THEN 0 ELSE iter.it
         IN IF pos < Len(keys)
            THEN /\ iter' = [iter EXCEPT !.it = pos + 1, !.result = keys[pos + 1]]
                 /\ yielded' = Append(yielded, BlockRefFromBytes(keys[pos + 1]))
                 /\ ret' = Return("Next", 1, "nil")
                 /\ UNCHANGED <<store, created>>
            ELSE /\ iter' = [iter EXCEPT !.it = pos, !.result = <<>>]
                 /\ ret' = Return("Next", 0, "nil")
                 /\ UNCHANGED <<store, yielded, created>>

\* mfileIterator.Next (val 1 for true, 0 for false), and the caller's BlockRef()
\* when it returned true.
IteratorNext(t) ==
    IF ~iter.hasTx THEN
        /\ ret' = Return("Next", 0, "nil")
        /\ UNCHANGED <<store, iterator>>
    ELSE LET keys == SortedKeys(t)
             pos == IF iter.it = -1 THEN 0 ELSE iter.it
         IN IF pos < Len(keys)
            THEN /\ iter' = [iter EXCEPT !.it = pos + 1, !.result = keys[pos + 1]]
                 /\ yielded' = Append(yielded, BlockRefFromBytes(keys[pos + 1]))
                 /\ ret' = Return("Next", 1, "nil")
                 /\ UNCHANGED <<store, created>>
            ELSE /\ iter' = [iter EXCEPT !.it = pos, !.result = <<>>]
                 /\ ret' = Return("Next", 0, "nil")
                 /\ UNCHANGED <<store, yielded, created>>

IteratorClose ==
    /\ iter' = [iter EXCEPT !.hasTx = FALSE, !.tx = {}]
    /\ ret' = Return("IteratorClose", NoValue, "nil")
    /\ UNCHANGED <<store, yielded, created>>

\* ---- the operations of the store, statement by statement ----

\* m.mut.Lock() succeeds when nobody holds the lock, m.mut.RLock() when
\* nobody holds it locked for writing
CanLock == mut.w = 0 /\ mut.r = {}
CanRLock == mut.w = 0

\* the deferred m.mut.Unlock() and the return
Unlock(t) ==
    /\ mut' = [mut EXCEPT !.w = 0]
    /\ pc' = [pc EXCEPT ![t] = Idle]

\* WriteBlock, lines 268-277: Lock, the closed test, findEmpty
WriteBlockBegin(t, s, d) ==
    /\ pc[t] = Idle
    /\ CanLock
    /\ IF closed THEN
          /\ ret' = Return("WriteBlock", NoValue, "ErrClosed")
          /\ UNCHANGED <<store, pc, mut>>
       ELSE LET index == findEmpty(blockMap, lastFree) IN
          IF index = -1 THEN
             /\ ret' = Return("WriteBlock", NoValue, "ErrOutOfSpace")
             /\ UNCHANGED <<store, pc, mut>>
          ELSE
             /\ lastFree' = index
             /\ mut' = [mut EXCEPT !.w = t]
             /\ pc' = [pc EXCEPT ![t] = [op |-> "WriteBlock", step |-> "data",
                                         s |-> s, d |-> d, index |-> index]]
             /\ UNCHANGED <<data, blockMap, blockTrie, closed, size, ret>>

\* line 279: m.data.WriteBlock(index, data)
WriteBlockData(t) ==
    /\ pc[t].op = "WriteBlock" /\ pc[t].step = "data"
    /\ data' = [data EXCEPT ![pc[t].index] = pc[t].d]
    /\ pc' = [pc EXCEPT ![t].step = "map"]
    /\ UNCHANGED <<blockMap, blockTrie, closed, lastFree, size, ret, mut>>

\* line 283: m.blockMap.WriteBlock(index, s.ToBytes())
WriteBlockMap(t) ==
    /\ pc[t].op = "WriteBlock" /\ pc[t].step = "map"
    /\ blockMap' = [blockMap EXCEPT ![pc[t].index] = BlockRefToBytes(pc[t].s)]
    /\ pc' = [pc EXCEPT ![t].step = "insert"]
    /\ UNCHANGED <<data, blockTrie, closed, lastFree, size, ret, mut>>

\* lines 288-293: tx.Insert, the exists test, m.size++
WriteBlockInsert(t) ==
    /\ pc[t].op = "WriteBlock" /\ pc[t].step = "insert"
    /\ IF TrieInsert(blockTrie, BlockRefToBytes(pc[t].s), pc[t].index).exists
       THEN /\ ret' = Return("WriteBlock", NoValue, "ErrAlreadyExisted")
            /\ Unlock(t)
            /\ UNCHANGED store
       ELSE /\ size' = size + 1
            /\ pc' = [pc EXCEPT ![t].step = "commit"]
            /\ UNCHANGED <<data, blockMap, blockTrie, closed, lastFree, ret, mut>>

\* lines 294-295: m.blockTrie = tx.Commit(), return nil
WriteBlockCommit(t) ==
    /\ pc[t].op = "WriteBlock" /\ pc[t].step = "commit"
    /\ blockTrie' = TrieInsert(blockTrie, BlockRefToBytes(pc[t].s), pc[t].index).trie
    /\ ret' = Return("WriteBlock", NoValue, "nil")
    /\ Unlock(t)
    /\ UNCHANGED <<data, blockMap, closed, lastFree, size>>

\* DeleteBlock, lines 299-307: Lock, the closed test, findIndex
DeleteBlockBegin(t, s) ==
    /\ pc[t] = Idle
    /\ CanLock
    /\ IF closed THEN
          /\ ret' = Return("DeleteBlock", NoValue, "ErrClosed")
          /\ UNCHANGED <<store, pc, mut>>
       ELSE LET index == findIndex(blockTrie, s) IN
          IF index = -1 THEN
             /\ ret' = Return("DeleteBlock", NoValue, "ErrBlockNotExist")
             /\ UNCHANGED <<store, pc, mut>>
          ELSE
             /\ mut' = [mut EXCEPT !.w = t]
             /\ pc' = [pc EXCEPT ![t] = [op |-> "DeleteBlock", step |-> "map",
                                         s |-> s, d |-> 0, index |-> index]]
             /\ UNCHANGED <<store, ret>>

\* line 308: the map slot is overwritten with zeroes
DeleteBlockMap(t) ==
    /\ pc[t].op = "DeleteBlock" /\ pc[t].step = "map"
    /\ blockMap' = [blockMap EXCEPT ![pc[t].index] = Blank]
    /\ pc' = [pc EXCEPT ![t].step = "delete"]
    /\ UNCHANGED <<data, blockTrie, closed, lastFree, size, ret, mut>>

\* lines 312-317: tx.Delete, the exists test, m.size--
DeleteBlockDelete(t) ==
    /\ pc[t].op = "DeleteBlock" /\ pc[t].step = "delete"
    /\ IF ~TrieDelete(blockTrie, BlockRefToBytes(pc[t].s)).exists
       THEN /\ ret' = Return("DeleteBlock", NoValue, "ErrDeletingNonExistent")
            /\ Unlock(t)
            /\ UNCHANGED store
       ELSE /\ size' = size - 1
            /\ pc' = [pc EXCEPT ![t].step = "commit"]
            /\ UNCHANGED <<data, blockMap, blockTrie, closed, lastFree, ret, mut>>

\* lines 318-319: m.blockTrie = tx.Commit(), return nil
DeleteBlockCommit(t) ==
    /\ pc[t].op = "DeleteBlock" /\ pc[t].step = "commit"
    /\ blockTrie' = TrieDelete(blockTrie, BlockRefToBytes(pc[t].s)).trie
    /\ ret' = Return("DeleteBlock", NoValue, "nil")
    /\ Unlock(t)
    /\ UNCHANGED <<data, blockMap, closed, lastFree, size>>

\* GetBlock, line 254: RLock
GetBlockBegin(t, s) ==
    /\ pc[t] = Idle
    /\ CanRLock
    /\ mut' = [mut EXCEPT !.r = mut.r \cup {t}]
    /\ pc' = [pc EXCEPT ![t] = [Idle EXCEPT !.op = "GetBlock", !.step = "read", !.s = s]]
    /\ UNCHANGED <<store, ret>>

\* lines 256-264 and the deferred RUnlock
GetBlockRead(t) ==
    /\ pc[t].op = "GetBlock"
    /\ GetBlock(pc[t].s)
    /\ mut' = [mut EXCEPT !.r = mut.r \ {t}]
    /\ pc' = [pc EXCEPT ![t] = Idle]

\* UsedBlocks is entered: no lock is taken (lines 195-197)
UsedBlocksBegin(t) ==
    /\ pc[t] = Idle
    /\ pc' = [pc EXCEPT ![t] = [Idle EXCEPT !.op = "UsedBlocks", !.step = "read"]]
    /\ UNCHANGED <<store, ret, mut>>

\* line 196: return m.size
UsedBlocksRead(t) ==
    /\ pc[t].op = "UsedBlocks"
    /\ UsedBlocks
    /\ pc' = [pc EXCEPT ![t] = Idle]
    /\ UNCHANGED mut

\* NumBlocks is entered: no lock is taken (lines 191-193)
NumBlocksBegin(t) ==
    /\ pc[t] = Idle
    /\ pc' = [pc EXCEPT ![t] = [Idle EXCEPT !.op = "NumBlocks", !.step = "read"]]
    /\ UNCHANGED <<store, ret, mut>>

\* line 192: return m.data.NumBlocks()
NumBlocksRead(t) ==
    /\ pc[t].op = "NumBlocks"
    /\ NumBlocks
    /\ pc' = [pc EXCEPT ![t] = Idle]
    /\ UNCHANGED mut

\* BlockIterator, line 399: Lock
BlockIteratorBegin(t) ==
    /\ pc[t] = Idle
    /\ CanLock
    /\ mut' = [mut EXCEPT !.w = t]
    /\ pc' = [pc EXCEPT ![t] = [Idle EXCEPT !.op = "BlockIterator", !.step = "read"]]
    /\ UNCHANGED <<store, ret>>

\* lines 401-403 and the deferred Unlock
BlockIteratorRead(t) ==
    /\ pc[t].op = "BlockIterator"
    /\ BlockIterator
    /\ Unlock(t)

\* Close, lines 213-215, in one step: Lock, close(), Unlock
LockedClose(t) ==
    /\ pc[t] = Idle
    /\ CanLock
    /\ Close
    /\ UNCHANGED <<pc, mut>>

\* The process stops while thread 1 is inside a call, and a new process
\* opens the store on the same paths: what the stopped call had written to
\* the two files is there, its trie, counter and hint are not.
Restart ==
    /\ pc[1] # Idle
    /\ stopped' = [op |-> pc[1].op, step |-> pc[1].step, s |-> pc[1].s,
                   d |-> pc[1].d,
                   lookup |-> [o \in BlockRefs |-> GetBlockResult(blockTrie, data, FALSE, o)]]
    /\ pc' = [t \in Threads |-> Idle]
    /\ mut' = [w |-> 0, r |-> {}]
    /\ blockTrie' = loadTrie(blockMap).trie
    /\ size' = loadTrie(blockMap).size
    /\ lastFree' = 0
    /\ closed' = FALSE
    /\ ret' = Return("newMFileBlockStore", NoValue, "nil")
    /\ UNCHANGED file

\* ---- store replacement ----

\* os.Remove, os.Rename on a path that does not exist
ErrNotExist == "no such file or directory"

\* a method called on the nil *storage.MFile
NilMFile == "panic: nil MFile"

\* WriteBlock on the store object x, in one step under x's lock
StoreWriteBlock(x, s, d) ==
    LET m == stores[x] IN
    /\ m.made /\ m.mut = 0
    /\ IF m.closed THEN
          /\ ret' = Return("WriteBlock", NoValue, "ErrClosed")
          /\ UNCHANGED <<stores, mfiles>>
       ELSE IF m.data = 0 \/ m.blockMap = 0 THEN
          /\ ret' = Return("WriteBlock", NoValue, NilMFile)
          /\ UNCHANGED <<stores, mfiles>>
       ELSE LET index == findEmpty(mfiles[m.blockMap].blocks, m.lastFree) IN
          IF index = -1 THEN
             /\ ret' = Return("WriteBlock", NoValue, "ErrOutOfSpace")
             /\ UNCHANGED <<stores, mfiles>>
          ELSE LET ins == TrieInsert(m.blockTrie, BlockRefToBytes(s), index) IN
             /\ mfiles' = [mfiles EXCEPT
                              ![m.data].blocks[index] = d,
                              ![m.blockMap].blocks[index] = BlockRefToBytes(s)]
             /\ IF ins.exists
                THEN /\ stores' = [stores EXCEPT ![x].lastFree = index]
                     /\ ret' = Return("WriteBlock", NoValue, "ErrAlreadyExisted")
                ELSE /\ stores' = [stores EXCEPT ![x].lastFree = index,
                                                 ![x].size = m.size + 1,
                                                 ![x].blockTrie = ins.trie]
                     /\ ret' = Return("WriteBlock", NoValue, "nil")
    /\ UNCHANGED <<disk, rpc>>

\* what GetBlock on the store object m returns
StoreGet(m, f, s) ==
    IF m.closed THEN [val |-> NoValue, err |-> "ErrClosed"]
    ELSE IF findIndex(m.blockTrie, s) = -1 THEN [val |-> NoValue, err |-> "ErrBlockNotExist"]
    ELSE IF m.data = 0 THEN [val |-> NoValue, err |-> NilMFile]
    ELSE [val |-> f[m.data].blocks[findIndex(m.blockTrie, s)], err |-> "nil"]

\* GetBlock on the store object x, in one step under x's read lock
StoreGetBlock(x, s) ==
    /\ stores[x].made /\ stores[x].mut = 0
    /\ ret' = Return("GetBlock", StoreGet(stores[x], mfiles, s).val,
                     StoreGet(stores[x], mfiles, s).err)
    /\ UNCHANGED replacement

\* UsedBlocks on the store object x
StoreUsedBlocks(x) ==
    /\ stores[x].made
    /\ ret' = Return("UsedBlocks", stores[x].size, "nil")
    /\ UNCHANGED replacement

\* ReplaceBlockStore, lines 356-361: m.ReplaceBlockStore(newM) is called, the
\* type assertion holds (every store here is an mfileBlock), m.mut is locked
ReplaceBegin(t, x, y) ==
    /\ rpc[t] = NoCall
    /\ stores[x].made /\ stores[y].made
    /\ stores[x].mut = 0
    /\ stores' = [stores EXCEPT ![x].mut = t]
    /\ rpc' = [rpc EXCEPT ![t] = [op |-> "ReplaceBlockStore", step |-> "lock newM",
                                  m |-> x, newM |-> y]]
    /\ UNCHANGED <<mfiles, disk, ret>>

\* lines 362-363: newM.mut.Lock()
ReplaceLockNewM(t) ==
    /\ rpc[t].step = "lock newM"
    /\ stores[rpc[t].newM].mut = 0
    /\ stores' = [stores EXCEPT ![rpc[t].newM].mut = t]
    /\ rpc' = [rpc EXCEPT ![t].step = "replace"]
    /\ UNCHANGED <<mfiles, disk, ret>>

\* lines 364-379: the two os.Remove and the two os.Rename calls on directory
\* d, stopping at the first that fails
RemoveAndRename(d, m, newM) ==
    IF d[m.dfilename] = 0 THEN [err |-> ErrNotExist, disk |-> d]
    ELSE LET d1 == [d EXCEPT ![m.dfilename] = 0] IN
    IF d1[m.mfilename] = 0 THEN [err |-> ErrNotExist, disk |-> d1]
    ELSE LET d2 == [d1 EXCEPT ![m.mfilename] = 0] IN
    IF d2[newM.mfilename] = 0 THEN [err |-> ErrNotExist, disk |-> d2]
    ELSE LET d3 == [d2 EXCEPT ![m.mfilename] = d2[newM.mfilename],
                              ![newM.mfilename] = 0] IN
    IF d3[newM.dfilename] = 0 THEN [err |-> ErrNotExist, disk |-> d3]
    ELSE [err |-> "nil",
          disk |-> [d3 EXCEPT ![m.dfilename] = d3[newM.dfilename],
                              ![newM.dfilename] = 0]]

\* what m.close() returns (lines 218-230): the result of Flush is dropped,
\* the MFiles are closed one after the other
CloseErr(m, f) ==
    IF m.data = 0 THEN NilMFile
    ELSE IF f[m.data].closed THEN MFileAfterClose
    ELSE IF m.blockMap = 0 THEN NilMFile
    ELSE IF f[m.blockMap].closed THEN MFileAfterClose
    ELSE "nil"

\* lines 364-395 and the deferred unlocks, under both locks
ReplaceBody(t) ==
    /\ rpc[t].step = "replace"
    /\ LET x == rpc[t].m
           y == rpc[t].newM
           m == stores[x]
           newM == stores[y]
           moved == RemoveAndRename(disk, m, newM)
           z == CHOOSE o \in StoreIds : ~stores[o].made
           out == [made |-> TRUE, mut |-> 0, data |-> newM.data,
                   blockMap |-> newM.blockMap, blockTrie |-> newM.blockTrie,
                   closed |-> FALSE, lastFree |-> newM.lastFree, size |-> newM.size,
                   dfilename |-> m.dfilename, mfilename |-> m.mfilename]
           \* newM.data = nil; newM.blockMap = nil
           nulled == [stores EXCEPT ![y].data = 0, ![y].blockMap = 0]
       IN
       /\ disk' = moved.disk
       /\ IF moved.err # "nil" THEN
             /\ ret' = Return("ReplaceBlockStore", NoValue, moved.err)
             /\ stores' = [stores EXCEPT ![x].mut = 0, ![y].mut = 0]
             /\ UNCHANGED mfiles
          ELSE IF CloseErr(nulled[x], mfiles) # "nil" THEN
             /\ ret' = Return("ReplaceBlockStore", NoValue, CloseErr(nulled[x], mfiles))
             /\ stores' = [nulled EXCEPT ![x].mut = 0, ![y].mut = 0]
             /\ mfiles' = IF nulled[x].data # 0 /\ ~mfiles[nulled[x].data].closed
                          THEN [mfiles EXCEPT ![nulled[x].data].closed = TRUE]
                          ELSE mfiles
          ELSE
             /\ ret' = Return("ReplaceBlockStore", z, "nil")
             /\ stores' = [nulled EXCEPT ![x].mut = 0, ![y].mut = 0,
                                         ![x].closed = TRUE, ![z] = out]
             /\ mfiles' = [mfiles EXCEPT ![m.data].closed = TRUE,
                                         ![m.blockMap].closed = TRUE]
    /\ rpc' = [rpc EXCEPT ![t] = NoCall]

\* ---- the backend registry (package agro) ----

Kinds == 1 .. MaxKind       \* the names backends register under
Funcs == 1 .. MaxFunc       \* the constructors (NewBlockStoreFunc, NewINodeStoreFunc)

RegisteredTwice == "panic: agro: attempted to register twice"

\* calling a nil func value
NilFuncCall == "panic: runtime error: invalid memory address or nil pointer dereference"

Panics == {RegisteredTwice, NilFuncCall}

\* if m == nil { m = make(map[string]...) }
MakeIfNil(m) == IF m.made THEN m ELSE [made |-> TRUE, of |-> <<>>]

\* the outcome of a Register call on table m: the table and what is returned
Register(op, m, name, newFunc) ==
    LET t == MakeIfNil(m) IN
    IF name \in DOMAIN t.of
    THEN [table |-> t, ret |-> Return(op, NoValue, RegisteredTwice)]
    ELSE [table |-> [t EXCEPT !.of = (name :> newFunc) @@ t.of],
          ret |-> Return(op, NoValue, "nil")]

\* the outcome of a Create call on table m: m[kind](...), val the constructor
\* that was invoked
Create(op, m, kind) ==
    IF kind \in DOMAIN m.of
    THEN Return(op, m.of[kind], "nil")
    ELSE Return(op, NoValue, NilFuncCall)

RegisterBlockStore(name, newFunc) ==
    /\ blockStores' = Register("RegisterBlockStore", blockStores, name, newFunc).table
    /\ ret' = Register("RegisterBlockStore", blockStores, name, newFunc).ret
    /\ UNCHANGED inodeStores

CreateBlockStore(kind) ==
    /\ ret' = Create("CreateBlockStore", blockStores, kind)
    /\ UNCHANGED <<registry, threads, replacement>>

RegisterINodeStore(name, newFunc) ==
    /\ inodeStores' = Register("RegisterINodeStore", inodeStores, name, newFunc).table
    /\ ret' = Register("RegisterINodeStore", inodeStores, name, newFunc).ret
    /\ UNCHANGED blockStores

CreateINodeStore(kind) ==
    /\ ret' = Create("CreateINodeStore", inodeStores, kind)
    /\ UNCHANGED <<registry, threads, replacement>>

\* ---- the rebalancer (package rebalance) ----

\* what DeleteUnusedVolumes is to delete: a block of a volume below the
\* highwater mark that is not live (lines 80-83)
Unused(ref, live, highwater) == ~(ref.Volume >= highwater) /\ ref.Volume \notin live

\* lines 65-69: the live set is built and the iterator created.  start (what
\* get returned for every ref at this instant) and gone (the refs other
\* threads deleted since) are kept for the properties.
DeleteUnusedVolumesStart(liveVolumes, highwater) ==
    /\ rebal.pc = "idle"
    /\ BlockIterator
    /\ rebal' = [pc |-> "next", live |-> liveVolumes, highwater |-> highwater,
                 err |-> "nil",
                 start |-> [s \in BlockRefs |-> GetBlockResult(blockTrie, data, FALSE, s)],
                 gone |-> {}]

\* lines 71-78: ok := tempIt.Next(); at the end tempIt.Err() is returned,
\* which no code path of the iterator ever sets
DeleteUnusedVolumesNext ==
    /\ rebal.pc = "next"
    /\ IteratorNext(iter.tx)
    /\ rebal' = [rebal EXCEPT !.pc = IF ret'.val = 1 THEN "ref" ELSE "return"]

\* lines 79-88: the block is skipped, or deleted with the error returned
DeleteUnusedVolumesRef ==
    /\ rebal.pc = "ref"
    /\ LET ref == BlockRefFromBytes(iter.result) IN
        IF Unused(ref, rebal.live, rebal.highwater)
        THEN /\ DeleteBlock(ref)
             /\ rebal' = [rebal EXCEPT
                             !.pc = IF ret'.err = "nil" THEN "next" ELSE "return",
                             !.err = ret'.err]
             /\ UNCHANGED iterator
        ELSE /\ rebal' = [rebal EXCEPT !.pc = "next"]
             /\ UNCHANGED <<store, ret, iterator>>

\* lines 77 and 86: return
DeleteUnusedVolumesReturn ==
    /\ rebal.pc = "return"
    /\ ret' = Return("DeleteUnusedVolumes", NoValue, rebal.err)
    /\ rebal' = [rebal EXCEPT !.pc = "idle"]
    /\ UNCHANGED <<store, iterator>>

\* another thread's DeleteBlock on the same store
OtherDeleteBlock(s) ==
    /\ DeleteBlock(s)
    /\ rebal' = [rebal EXCEPT
                    !.gone = IF rebal.pc # "idle" /\ ret'.err = "nil"
                             THEN rebal.gone \cup {s} ELSE rebal.gone]

\* ---- specifications ----

\* the mutating operations, close and reopen
Mutate ==
    \/ \E s \in BlockRefs, d \in Payloads : WriteBlock(s, d)
    \/ \E s \in BlockRefs : DeleteBlock(s)
    \/ \E s \in INodeRefs : DeleteINodeBlocks(s)

Next ==
    \/ Mutate /\ UNCHANGED <<iterator, registry, rebal, threads, replacement>>
    \/ ~closed /\ Close /\ UNCHANGED <<iterator, registry, rebal, threads, replacement>>
    \/ newMFileBlockStore /\ UNCHANGED <<iterator, registry, rebal, threads, replacement>>

Spec == Init /\ [][Next]_vars

\* The operations of the store, on an open or a closed store.  NumBlocks,
\* Flush and Close go straight to the MFiles, whose answer after they were
\* closed is not the store's to decide: callers here make these three calls on
\* an open store only.
NextCalls ==
    \/ Mutate /\ UNCHANGED <<iterator, registry, rebal, threads, replacement>>
    \/ \E s \in BlockRefs : GetBlock(s) /\ UNCHANGED <<iterator, registry, rebal, threads, replacement>>
    \/ UsedBlocks /\ UNCHANGED <<iterator, registry, rebal, threads, replacement>>
    \/ ~closed /\ NumBlocks /\ UNCHANGED <<iterator, registry, rebal, threads, replacement>>
    \/ ~closed /\ Flush /\ UNCHANGED <<iterator, registry, rebal, threads, replacement>>
    \/ ~closed /\ Close /\ UNCHANGED <<iterator, registry, rebal, threads, replacement>>
    \/ newMFileBlockStore /\ UNCHANGED <<iterator, registry, rebal, threads, replacement>>

SpecCalls == Init /\ [][NextCalls]_vars

\* an iterator walked while the store is mutated; the payloads play no part
\* in what an iterator yields, so the writers here write the zero block, to
\* block 0 of each inode
FirstBlockRefs == {b \in BlockRefs : b.Index = 0}

NextIterator ==
    \/ \E s \in FirstBlockRefs : WriteBlock(s, 0) /\ UNCHANGED <<iterator, registry, rebal, threads, replacement>>
    \/ \E s \in FirstBlockRefs : DeleteBlock(s) /\ UNCHANGED <<iterator, registry, rebal, threads, replacement>>
    \/ \E s \in INodeRefs : DeleteINodeBlocks(s) /\ UNCHANGED <<iterator, registry, rebal, threads, replacement>>
    \/ BlockIterator /\ UNCHANGED <<registry, rebal, threads, replacement>>
    \/ IteratorNext(iter.tx) /\ UNCHANGED <<registry, rebal, threads, replacement>>
    \/ IteratorClose /\ UNCHANGED <<registry, rebal, threads, replacement>>

SpecIterator == Init /\ [][NextIterator]_vars

\* the registry: register and create calls on both tables
NextRegistry ==
    \/ \E n \in Kinds, f \in Funcs :
          RegisterBlockStore(n, f) /\ UNCHANGED <<store, iterator, rebal, threads, replacement>>
    \/ \E k \in Kinds : CreateBlockStore(k) /\ UNCHANGED <<store, iterator, rebal, threads, replacement>>
    \/ \E n \in Kinds, f \in Funcs :
          RegisterINodeStore(n, f) /\ UNCHANGED <<store, iterator, rebal, threads, replacement>>
    \/ \E k \in Kinds : CreateINodeStore(k) /\ UNCHANGED <<store, iterator, rebal, threads, replacement>>

SpecRegistry == Init /\ [][NextRegistry]_vars

\* the rebalancer deleting the blocks of unused volumes while another thread
\* deletes blocks; the store is filled between the rebalancer's calls, with
\* one payload, which plays no part in what the rebalancer does
HighWaters == 1 .. (MaxVolume + 1)

NextRebalance ==
    \/ \E s \in FirstBlockRefs :
          /\ rebal.pc = "idle"
          /\ WriteBlock(s, MaxPayload)
          /\ UNCHANGED <<iterator, registry, rebal, threads, replacement>>
    \/ \E s \in FirstBlockRefs :
          rebal.pc # "idle" /\ OtherDeleteBlock(s) /\ UNCHANGED <<iterator, registry, threads, replacement>>
    \/ \E l \in SUBSET Volumes, h \in HighWaters :
          DeleteUnusedVolumesStart(l, h) /\ UNCHANGED <<registry, threads, replacement>>
    \/ DeleteUnusedVolumesNext /\ UNCHANGED <<registry, threads, replacement>>
    \/ DeleteUnusedVolumesRef /\ UNCHANGED <<registry, threads, replacement>>
    \/ DeleteUnusedVolumesReturn /\ UNCHANGED <<registry, threads, replacement>>

SpecRebalance == Init /\ [][NextRebalance]_vars

\* the statements of WriteBlock and DeleteBlock that thread t is at
MutationStep(t) ==
    \/ WriteBlockData(t)
    \/ WriteBlockMap(t)
    \/ WriteBlockInsert(t)
    \/ WriteBlockCommit(t)
    \/ DeleteBlockMap(t)
    \/ DeleteBlockDelete(t)
    \/ DeleteBlockCommit(t)

\* one thread writing and deleting, the process stopping at any statement;
\* what is remembered of a stop is dropped at the next call
NextCrash ==
    \/ \E s \in FirstBlockRefs, d \in Payloads :
          /\ WriteBlockBegin(1, s, d)
          /\ stopped' = NoStop
          /\ UNCHANGED <<iterator, registry, rebal, replacement>>
    \/ \E s \in FirstBlockRefs :
          /\ DeleteBlockBegin(1, s)
          /\ stopped' = NoStop
          /\ UNCHANGED <<iterator, registry, rebal, replacement>>
    \/ MutationStep(1) /\ UNCHANGED <<iterator, registry, rebal, stopped, replacement>>
    \/ Restart /\ UNCHANGED <<iterator, registry, rebal, replacement>>

SpecCrash == Init /\ [][NextCrash]_vars

\* the threads calling into one store; the payloads play no part in the
\* locking, so the writers here write the zero block, to block 0 of inode 1
LockRefs == {b \in FirstBlockRefs : b.INode = 1}

NextLock ==
    \/ \E t \in Threads, s \in LockRefs :
          WriteBlockBegin(t, s, 0) /\ UNCHANGED <<iterator, registry, rebal, stopped, replacement>>
    \/ \E t \in Threads, s \in LockRefs :
          DeleteBlockBegin(t, s) /\ UNCHANGED <<iterator, registry, rebal, stopped, replacement>>
    \/ \E t \in Threads :
          MutationStep(t) /\ UNCHANGED <<iterator, registry, rebal, stopped, replacement>>
    \/ \E t \in Threads, s \in LockRefs :
          GetBlockBegin(t, s) /\ UNCHANGED <<iterator, registry, rebal, stopped, replacement>>
    \/ \E t \in Threads :
          GetBlockRead(t) /\ UNCHANGED <<iterator, registry, rebal, stopped, replacement>>
    \/ \E t \in Threads :
          UsedBlocksBegin(t) /\ UNCHANGED <<iterator, registry, rebal, stopped, replacement>>
    \/ \E t \in Threads :
          UsedBlocksRead(t) /\ UNCHANGED <<iterator, registry, rebal, stopped, replacement>>
    \/ \E t \in Threads :
          ~closed /\ NumBlocksBegin(t) /\ UNCHANGED <<iterator, registry, rebal, stopped, replacement>>
    \/ \E t \in Threads :
          ~closed /\ NumBlocksRead(t) /\ UNCHANGED <<iterator, registry, rebal, stopped, replacement>>
    \/ \E t \in Threads :
          BlockIteratorBegin(t) /\ UNCHANGED <<iterator, registry, rebal, stopped, replacement>>
    \/ \E t \in Threads :
          BlockIteratorRead(t) /\ UNCHANGED <<registry, rebal, stopped, replacement>>
    \/ \E t \in Threads :
          ~closed /\ LockedClose(t) /\ UNCHANGED <<iterator, registry, rebal, stopped, replacement>>
    \/ /\ \A t \in Threads : pc[t] = Idle
       /\ newMFileBlockStore
       /\ UNCHANGED <<iterator, registry, rebal, threads, replacement>>

SpecLock == Init /\ [][NextLock]_vars

\* Two threads replacing stores by one another.  The stores are filled
\* before the first replacement is called; to tell the stores' blocks apart
\* every object writes a payload of its own.
ReplaceCall(t) ==
    \/ ReplaceLockNewM(t)
    \/ ReplaceBody(t)

NextReplace ==
    \/ \E x \in StoreIds, s \in LockRefs :
          /\ \A t \in Threads : rpc[t] = NoCall
          /\ ~stores[MaxStores].made
          /\ StoreWriteBlock(x, s, x % (MaxPayload + 1))
          /\ UNCHANGED <<store, iterator, registry, rebal, threads>>
    \/ \E x \in StoreIds, s \in LockRefs :
          StoreGetBlock(x, s) /\ UNCHANGED <<store, iterator, registry, rebal, threads>>
    \/ \E x \in StoreIds :
          StoreUsedBlocks(x) /\ UNCHANGED <<store, iterator, registry, rebal, threads>>
    \/ \E t \in Threads, x, y \in StoreIds :
          /\ ~stores[MaxStores].made
          /\ ReplaceBegin(t, x, y)
          /\ UNCHANGED <<store, iterator, registry, rebal, threads>>
    \/ \E t \in Threads :
          ReplaceCall(t) /\ UNCHANGED <<store, iterator, registry, rebal, threads>>

SpecReplace == Init /\ [][NextReplace]_vars

\* sync.Mutex hands the lock to a waiter that keeps waiting (starvation
\* mode), and a thread that holds both locks runs on
SpecReplaceFair ==
    /\ SpecReplace
    /\ \A t \in Threads :
          /\ SF_vars(ReplaceLockNewM(t) /\ UNCHANGED <<store, iterator, registry, rebal, threads>>)
          /\ WF_vars(ReplaceBody(t) /\ UNCHANGED <<store, iterator, registry, rebal, threads>>)

\* ---- vocabulary of the properties ----

\* what get(s) returns on the store held by the caller
Get(s) == GetBlockResult(blockTrie, data, closed, s)

\* what get(s) returns while the store is open; the trie and the files of a
\* closed store are those it had when it was closed
Lookup(s) == GetBlockResult(blockTrie, data, FALSE, s)

Stored(s) == Lookup(s).err = "nil"
NotFound(s) == Lookup(s).err = "ErrBlockNotExist"
StoredRefs == {s \in BlockRefs : Stored(s)}

NonZeroSlots == {i \in Slots : blockMap[i] # Blank}
HasFreeSlot == NonZeroSlots # Slots

\* ---- C1 ----

\* C1 as stated: on an open store with a free slot, after write(ref, data)
\* get(ref) returns data, whether or not ref was already stored.
C1_WriteThenGetAnyRef ==
    [][(ret'.op = "WriteBlock" /\ ~closed /\ HasFreeSlot) =>
        \A s \in BlockRefs, d \in Payloads :
            WriteBlock(s, d) => (Get(s)' = [val |-> d, err |-> "nil"])]_vars

\* C1 amended: on an open store with a free slot, for a ref that is not
\* stored, write(ref, data) returns nil and get(ref) then returns data.
C1_WriteThenGet ==
    [][(ret'.op = "WriteBlock" /\ ~closed /\ HasFreeSlot) =>
        \A s \in BlockRefs, d \in Payloads :
            (NotFound(s) /\ WriteBlock(s, d))
                => (ret'.err = "nil" /\ Get(s)' = [val |-> d, err |-> "nil"])]_vars

\* a write of payload 1 has just succeeded into a slot other than the one the
\* fresh store fills first, and the ref written reads back as 1
C1_Witness ==
    /\ ret = Return("WriteBlock", NoValue, "nil")
    /\ lastFree = 0
    /\ data[0] = 1
    /\ blockMap[0] # Blank
    /\ Get(BlockRefFromBytes(blockMap[0])) = [val |-> 1, err |-> "nil"]

\* ---- C2 ----

\* C2: a successful delete(ref), and a successful delete-all-for-inode of
\* ref's inode, leave get(ref) not-found, and a ref that is not found stays
\* not found across every step that is not a write of it.
C2_DeletedStaysNotFound ==
    [][\A s \in BlockRefs :
        /\ (ret'.err = "nil" /\ DeleteBlock(s)) => NotFound(s)'
        /\ \A i \in INodeRefs :
             (ret'.err = "nil" /\ IsINode(s, i) /\ DeleteINodeBlocks(i))
                 => NotFound(s)'
        /\ (NotFound(s) /\ ~(\E d \in Payloads : WriteBlock(s, d)))
                 => NotFound(s)']_vars

\* ---- C3 ----

\* C3: delete-all-for-inode(iref) on an open store makes every stored ref of
\* that (volume, inode) not-found, leaves what get returns for every other ref
\* as it was, and lowers used-blocks by the number of refs it removed.
C3_DeleteINodeExact ==
    [][(ret'.op = "DeleteINodeBlocks" /\ ~closed) =>
        \A i \in INodeRefs :
            DeleteINodeBlocks(i) =>
                LET removed == {s \in StoredRefs : IsINode(s, i)} IN
                /\ \A s \in removed : NotFound(s)'
                /\ \A s \in BlockRefs \ removed : Get(s)' = Get(s)
                /\ size' = size - Cardinality(removed)]_vars

\* a bulk delete has just returned and left one ref of another inode stored,
\* beside two freed slots that still hold payload 1
C3_Witness ==
    /\ ret = Return("DeleteINodeBlocks", NoValue, "nil")
    /\ Cardinality(StoredRefs) = 1
    /\ size = 1
    /\ \A i \in Slots : blockMap[i] = Blank => data[i] = 1

\* ---- C4 ----

\* C4: used-blocks equals the number of map-file slots that are not all zero.
C4_UsedEqualsNonZeroSlots == size = Cardinality(NonZeroSlots)

\* ---- C5 ----

\* C5: used-blocks never exceeds num-blocks and never wraps below zero.
C5_UsedAtMostNumBlocks == size >= 0 /\ size <= NBlocks

\* a write has just succeeded and brought used-blocks to N
C5_Witness ==
    /\ ret = Return("WriteBlock", NoValue, "nil")
    /\ size = NBlocks

\* ---- C6 ----

\* C6: reopening a closed store rebuilds a trie that answers every get as the
\* trie before close did.
C6_ReopenPreservesGets ==
    [][newMFileBlockStore => \A s \in BlockRefs : Lookup(s)' = Lookup(s)]_vars

\* ---- C7 ----

Range(q) == {q[n] : n \in 1 .. Len(q)}
NoDuplicates(q) == \A m, n \in 1 .. Len(q) : m # n => q[m] # q[n]

\* C7: whatever is done to the store meanwhile, an iterator yields no ref twice
\* and only refs stored when it was created, and when Next reports the end it
\* has yielded all of them.
C7_IteratorYieldsSnapshot ==
    /\ NoDuplicates(yielded)
    /\ Range(yielded) \subseteq created
    /\ (iter.hasTx /\ ret = Return("Next", 0, "nil")) => Range(yielded) = created

\* an iterator has been walked to its end over two refs while one of them was
\* deleted from the store and a third ref was written
C7_Witness ==
    /\ iter.hasTx
    /\ ret = Return("Next", 0, "nil")
    /\ Len(yielded) = 2
    /\ created \ StoredRefs # {}
    /\ StoredRefs \ created # {}

\* ---- C8 ----

\* C8: on an open store, delete(ref) of a ref that get does not find returns
\* not-found and changes nothing of the store.
C8_DeleteUnknownIsNoOp ==
    [][(ret'.op = "DeleteBlock" /\ ~closed) =>
        \A s \in BlockRefs :
            (NotFound(s) /\ DeleteBlock(s))
                => (ret'.err = "ErrBlockNotExist" /\ UNCHANGED store)]_vars

\* a delete has just returned not-found on a store that holds other refs
C8_Witness ==
    /\ ret = Return("DeleteBlock", NoValue, "ErrBlockNotExist")
    /\ ~closed
    /\ Cardinality(StoredRefs) = 2

\* ---- C9 ----

\* no slot is held by anything but a stored ref: the states that writes of
\* distinct refs to an empty store produce
NoLeak ==
    /\ size = Cardinality(NonZeroSlots)
    /\ size = Cardinality(StoredRefs)

\* C9: on an open store a write returns out-of-space exactly when no map slot
\* is all zero, and then changes nothing; from an empty store (whatever the
\* hint) each write of a new ref succeeds and adds one to used-blocks until
\* used-blocks is N, and then writes fail with out-of-space.
C9_OutOfSpaceIffFull ==
    [][(ret'.op = "WriteBlock" /\ ~closed) =>
        \A s \in BlockRefs, d \in Payloads :
            WriteBlock(s, d) =>
                /\ (ret'.err = "ErrOutOfSpace") <=> ~HasFreeSlot
                /\ (ret'.err = "ErrOutOfSpace") => UNCHANGED store
                /\ (NoLeak /\ NotFound(s) /\ size < NBlocks) =>
                      (ret'.err = "nil" /\ size' = size + 1 /\ NoLeak')
                /\ (NoLeak /\ size = NBlocks) => ret'.err = "ErrOutOfSpace"]_vars

\* N distinct refs are stored, the hint is not where a fresh store leaves it
\* after N writes, and one more write has just failed with out-of-space
C9_Witness ==
    /\ ret = Return("WriteBlock", NoValue, "ErrOutOfSpace")
    /\ NoLeak
    /\ size = NBlocks
    /\ lastFree # 0

\* ---- C10 ----

\* C10: every call on a closed store fails with the closed error and leaves
\* the files and the trie alone.
C10_ClosedStoreRejectsEveryCall ==
    [][(closed /\ ret'.op # "newMFileBlockStore")
          => (ret'.err = "ErrClosed" /\ UNCHANGED <<data, blockMap, blockTrie>>)]_vars

\* ---- C13 ----

\* C13: the trie and the map file describe the same mapping: every nonzero
\* map slot i holds a key that the trie maps to i (I2), and every (key, i) of
\* the trie has map slot i equal to key (I3).
C13_TrieAgreesWithMap ==
    /\ \A i \in NonZeroSlots :
          blockMap[i] \in DOMAIN blockTrie /\ blockTrie[blockMap[i]] = i
    /\ \A k \in DOMAIN blockTrie : blockMap[blockTrie[k]] = k

\* ---- C14 ----

\* C14: no two map slots hold the same nonzero key (I5).
C14_NoDuplicateMapKeys ==
    \A i, j \in NonZeroSlots : i # j => blockMap[i] # blockMap[j]

\* ---- C17 ----

\* C17: opening over existing files does not succeed when two map slots hold
\* the same nonzero key, and never succeeds with a used-blocks counter that
\* differs from the number of keys of the rebuilt trie.
C17_OpenRejectsDuplicateKeys ==
    [][(newMFileBlockStore /\ ret'.err = "nil") =>
          /\ \A i, j \in NonZeroSlots : i # j => blockMap[i] # blockMap[j]
          /\ size' = Cardinality(DOMAIN blockTrie')]_vars

\* ---- C18 ----

\* the slots in the order the allocator is to probe them: hint+1, hint+2, ...
\* modulo N
ProbeOrder(lf) == [i \in 1 .. NBlocks |-> (lf + i) % NBlocks]

\* the first all-zero slot of m in that order, -1 when there is none
FirstBlankInProbeOrder(m, lf) ==
    LET hits == {i \in 1 .. NBlocks : m[ProbeOrder(lf)[i]] = Blank}
    IN IF hits = {} THEN -1
       ELSE ProbeOrder(lf)[CHOOSE i \in hits : \A j \in hits : i <= j]

\* C18: the probe order visits each slot once; a write on an open store takes
\* the first all-zero slot in probe order and sets the hint to it, or fails
\* with the hint unchanged when there is none; the slot it takes is the slot
\* of no stored ref, no other slot of either file changes, and every stored
\* ref reads back as before.
C18_AllocatorProbeOrder ==
    [][(ret'.op = "WriteBlock" /\ ~closed) =>
        \A s \in BlockRefs, d \in Payloads :
            WriteBlock(s, d) =>
                LET f == FirstBlankInProbeOrder(blockMap, lastFree) IN
                /\ {ProbeOrder(lastFree)[i] : i \in 1 .. NBlocks} = Slots
                /\ (f = -1) => (ret'.err = "ErrOutOfSpace" /\ lastFree' = lastFree)
                /\ (f # -1) =>
                      /\ lastFree' = f
                      /\ blockMap[f] = Blank
                      /\ blockMap'[f] = BlockRefToBytes(s) /\ data'[f] = d
                      /\ \A i \in Slots \ {f} :
                            data'[i] = data[i] /\ blockMap'[i] = blockMap[i]
                      /\ \A o \in StoredRefs : findIndex(blockTrie, o) # f
                      /\ \A o \in StoredRefs : Lookup(o)' = Lookup(o)]_vars

\* a write has just taken slot 1, the first all-zero slot after the hint, on
\* a store where slot 0 is held by a stored ref and slot 2 is free
C18_Witness ==
    /\ ret = Return("WriteBlock", NoValue, "nil")
    /\ lastFree = 1
    /\ blockMap[0] # Blank
    /\ blockMap[2] = Blank
    /\ size = 2

\* ---- C12 ----

\* C12: a Register call of a name its table already holds aborts and leaves
\* that table as it was, one of a new name adds exactly that entry; neither
\* touches the other table; a Create call of a registered kind invokes the
\* constructor registered under it, and one of an unknown kind fails by
\* returning an error, leaving both tables alone.
C12_RegistryContract ==
    [][/\ \A n \in Kinds, f \in Funcs :
            /\ RegisterBlockStore(n, f) =>
                  /\ inodeStores' = inodeStores
                  /\ IF n \in DOMAIN blockStores.of
                     THEN ret'.err = RegisteredTwice /\ blockStores' = blockStores
                     ELSE /\ ret'.err = "nil"
                          /\ DOMAIN blockStores'.of = DOMAIN blockStores.of \cup {n}
                          /\ blockStores'.of[n] = f
                          /\ \A o \in DOMAIN blockStores.of :
                                blockStores'.of[o] = blockStores.of[o]
            /\ RegisterINodeStore(n, f) =>
                  /\ blockStores' = blockStores
                  /\ IF n \in DOMAIN inodeStores.of
                     THEN ret'.err = RegisteredTwice /\ inodeStores' = inodeStores
                     ELSE /\ ret'.err = "nil"
                          /\ DOMAIN inodeStores'.of = DOMAIN inodeStores.of \cup {n}
                          /\ inodeStores'.of[n] = f
                          /\ \A o \in DOMAIN inodeStores.of :
                                inodeStores'.of[o] = inodeStores.of[o]
       /\ \A k \in Kinds :
            /\ CreateBlockStore(k) =>
                  /\ UNCHANGED <<registry, threads, replacement>>
                  /\ IF k \in DOMAIN blockStores.of
                     THEN ret'.err = "nil" /\ ret'.val = blockStores.of[k]
                     ELSE ret'.err # "nil" /\ ret'.err \notin Panics
            /\ CreateINodeStore(k) =>
                  /\ UNCHANGED <<registry, threads, replacement>>
                  /\ IF k \in DOMAIN inodeStores.of
                     THEN ret'.err = "nil" /\ ret'.val = inodeStores.of[k]
                     ELSE ret'.err # "nil" /\ ret'.err \notin Panics]_vars

\* ---- C20 ----

\* C20: DeleteUnusedVolumes returns nil, also when another thread deleted
\* blocks of its snapshot meanwhile; when it returns nil no block that was
\* stored at its start and belongs to an unused volume is still stored, and
\* every block stored at its start whose volume is live or at least highwater
\* reads back as it did then, unless another thread deleted it.
C20_DeleteUnusedVolumes ==
    (ret.op = "DeleteUnusedVolumes") =>
        /\ ret.err = "nil"
        /\ \A s \in created :
              IF Unused(s, rebal.live, rebal.highwater)
              THEN NotFound(s)
              ELSE s \notin rebal.gone => Lookup(s) = rebal.start[s]

\* ---- C15 ----

\* C15: when the process stopped inside a write or a delete of ref and the
\* store was reopened from the same files: get(ref) answers as before the
\* call if the write had not yet written its map slot, returns the write's
\* payload if it had, is not-found if the delete had zeroed its map slot; and
\* every other ref that was stored reads back as before.
C15_StoppedCallsRecover ==
    (ret.op = "newMFileBlockStore" /\ stopped.op # "idle") =>
        /\ (stopped.op = "WriteBlock" /\ stopped.step \in {"data", "map"})
              => Lookup(stopped.s) = stopped.lookup[stopped.s]
        /\ (stopped.op = "WriteBlock" /\ stopped.step \in {"insert", "commit"})
              => Lookup(stopped.s) = [val |-> stopped.d, err |-> "nil"]
        /\ (stopped.op = "DeleteBlock" /\ stopped.step \in {"delete", "commit"})
              => NotFound(stopped.s)
        /\ \A o \in BlockRefs \ {stopped.s} :
              stopped.lookup[o].err = "nil" => Lookup(o) = stopped.lookup[o]

\* ---- C16 ----

ReadOps == {"GetBlock", "NumBlocks", "UsedBlocks", "BlockIterator"}
WriteOps == {"WriteBlock", "DeleteBlock"}

\* C16: a thread inside a read operation holds the lock in shared mode, and
\* no thread is then in the middle of a mutation; a thread inside a write
\* operation holds the lock in exclusive mode.
C16_LockModes ==
    \A t \in Threads :
        /\ pc[t].op \in ReadOps =>
              /\ t \in mut.r
              /\ \A u \in Threads : pc[u].op \notin WriteOps
        /\ pc[t].op \in WriteOps => mut.w = t


\* What a successful replacement of the open store x by the open store y on
\* other paths establishes, apart from what x answers afterwards.
ReplacedBy(t) ==
    LET x == rpc[t].m
        y == rpc[t].newM
        z == ret'.val
    IN  /\ ~stores[z].made /\ stores'[z].made /\ ~stores'[z].closed
        /\ stores'[z].dfilename = stores[x].dfilename
        /\ stores'[z].mfilename = stores[x].mfilename
        /\ disk'[stores[x].dfilename] = stores'[z].data
        /\ disk'[stores[x].mfilename] = stores'[z].blockMap
        /\ stores'[z].data # 0 /\ stores'[z].blockMap # 0
        /\ ~mfiles'[stores'[z].data].closed /\ ~mfiles'[stores'[z].blockMap].closed
        /\ stores'[z].size = stores[y].size
        /\ \A s \in BlockRefs :
              StoreGet(stores'[z], mfiles', s) = StoreGet(stores[y], mfiles, s)
        /\ \A p \in Paths : disk'[p] \notin {stores[x].data, stores[x].blockMap}
        /\ stores'[x].closed
        /\ stores'[y].data = 0 /\ stores'[y].blockMap = 0
        /\ \A a, b \in StoreIds :
              (a # b /\ stores'[a].made /\ stores'[b].made
                 /\ ~stores'[a].closed /\ stores'[a].data # 0) =>
                 {stores'[a].data, stores'[a].blockMap}
                    \cap {stores'[b].data, stores'[b].blockMap} = {}

SuccessfulReplace(t) ==
    /\ ReplaceBody(t)
    /\ ret'.err = "nil"
    /\ ~stores[rpc[t].m].closed /\ ~stores[rpc[t].newM].closed
    /\ stores[rpc[t].m].dfilename # stores[rpc[t].newM].dfilename

\* C11: when A.replace(B) succeeds for two open stores on different paths,
\* the returned store lives at A's paths and holds exactly B's refs, payloads
\* and used-blocks, A's original files are gone, B owns no file handle, no
\* two usable stores point at the same files, and A is closed so that every
\* later operation on A, UsedBlocks included, fails with closed.
C11_ReplaceContract ==
    [][/\ \A t \in Threads : SuccessfulReplace(t) => ReplacedBy(t)
       /\ \A x \in StoreIds :
             (stores[x].closed /\ StoreUsedBlocks(x)) => ret'.err = "ErrClosed"]_vars

\* the same without the later operations, and with GetBlock and WriteBlock as
\* the later operations
C11_ReplaceMovesFiles ==
    [][\A t \in Threads : SuccessfulReplace(t) => ReplacedBy(t)]_vars

C11_ClosedGetAndWrite ==
    [][\A x \in StoreIds :
          (stores[x].closed /\ ret'.op \in {"GetBlock", "WriteBlock"}
             /\ (\E s \in LockRefs : StoreGetBlock(x, s)
                                      \/ StoreWriteBlock(x, s, x % (MaxPayload + 1))))
          => ret'.err = "ErrClosed"]_vars

\* a replacement has succeeded with a nonempty B and A answers UsedBlocks
C11_Reached ==
    /\ stores[A].closed /\ stores[MaxStores].made /\ stores[MaxStores].size > 0
    /\ ret = Return("UsedBlocks", stores[A].size, "nil")


\* C19: store replacement never deadlocks: every call to replace eventually
\* acquires both write locks and returns, also when A.replace(B) runs
\* concurrently with B.replace(A) and when a store is its own replacement.
C19_ReplaceReturns ==
    \A t \in Threads : (rpc[t].op = "ReplaceBlockStore") ~> (rpc[t] = NoCall)

\* a thread waits for the lock of newM, which it holds itself as m
SelfReplaceWaits ==
    \E t \in Threads :
        /\ rpc[t].step = "lock newM"
        /\ rpc[t].m = rpc[t].newM
        /\ stores[rpc[t].m].mut = t

\* two threads each hold the lock of the store the other waits for
CrossReplaceWaits ==
    \E t, u \in Threads :
        /\ t # u
        /\ rpc[t].step = "lock newM" /\ rpc[u].step = "lock newM"
        /\ rpc[t].m = rpc[u].newM /\ rpc[u].m = rpc[t].newM
        /\ stores[rpc[t].m].mut = t /\ stores[rpc[u].m].mut = u

\* from either state no step of the waiting threads is possible
C19_WaitsForever ==
    [][(SelfReplaceWaits => SelfReplaceWaits')
         /\ (CrossReplaceWaits => CrossReplaceWaits')]_vars

\* without self-replacement and with one replacing thread every call returns
C19_OneCallReturns ==
    (rpc[1].op = "ReplaceBlockStore" /\ rpc[1].m # rpc[1].newM /\ rpc[2] = NoCall)
        ~> (rpc[1] = NoCall \/ rpc[2] # NoCall)

====
